---- MODULE Spec2Model ----
(***************************************************************************)
(* Model of custom_components/ha_integration_domain/sensor.py.             *)
(*                                                                         *)
(* The module registers one IntegrationBlueprintSensor per record of       *)
(* ENTITY_DESCRIPTIONS for a config entry (async_setup_entry) and exposes  *)
(* one property, native_value, which reads the key "body" out of the data  *)
(* attribute of the sensor's coordinator.                                  *)
(*                                                                         *)
(* Python values are written as the strings of their repr: None is "None", *)
(* the str 'quote' is "'quote'".  The data attribute of a coordinator is   *)
(* either None or a dict; it is the record [kind, items].                  *)
(***************************************************************************)
EXTENDS Integers, Sequences, FiniteSets, TLC

\* ------------------------------------------------------------------ bounds
\* Number of config entries the host has loaded.
NumEntries == 2
\* How many times the host sets the sensor platform up for one entry
\* (a reload sets it up again).
MaxSetups == 1

\* ------------------------------------------------------- Python data model
PyNone == "None"
\* The values the key "body" can hold (None is one of them).
Values == {PyNone, "'quote'"}
\* The key the sensor reads and one key it does not read.
BODY == "body"
Keys == {BODY, "title"}

\* coordinator.data is None
NoData == [kind |-> "NoneType", items |-> <<>>]
\* coordinator.data is the dict m
Dict(m) == [kind |-> "dict", items |-> m]
\* the values a key can hold: any of Values under "body", one str elsewhere
ValuesOf(k) == IF k = BODY THEN Values ELSE {"'sunt aut'"}
\* every dict over Keys: any subset of the keys, any of their values
Mappings ==
  UNION {{m \in [K -> UNION {ValuesOf(k) : k \in Keys}] :
            \A k \in K : m[k] \in ValuesOf(k)} : K \in SUBSET Keys}

Entries == 1..NumEntries
\* Coordinator objects are identified by numbers that are no entry numbers.
Coordinators == (NumEntries + 1)..(2 * NumEntries)
\* entry.runtime_data: each entry carries its own coordinator.
runtime_data == [e \in Entries |-> [coordinator |-> NumEntries + e]]

\* sensor.py, ENTITY_DESCRIPTIONS: a tuple of one SensorEntityDescription.
ENTITY_DESCRIPTIONS ==
  << [key |-> "ha_integration_domain",
      translation_key |-> "ha_integration_domain",
      icon |-> "mdi:format-quote-close"] >>

Range(s) == {s[i] : i \in DOMAIN s}

VARIABLES
  data,        \* data[c]: the data attribute of coordinator c
  setupCalls,  \* setupCalls[e]: calls of async_setup_entry for entry e
  addCalls,    \* addCalls[e]: calls of the async_add_entities of entry e
  instances,   \* the sensor objects constructed so far
  registered,  \* registered[e]: sensors handed to async_add_entities of e
  last         \* the last operation and what it returned

vars == <<data, setupCalls, addCalls, instances, registered, last>>

\* Constructor call IntegrationBlueprintSensor(coordinator=, entity_description=).
\* id stands for the identity of the new object.
IntegrationBlueprintSensor(coordinator, entity_description, id) ==
  [coordinator |-> coordinator,
   entity_description |-> entity_description,
   id |-> id]

\* dict.get(key): the value at key, None when the key is missing.
dict_get(m, key) == IF key \in DOMAIN m THEN m[key] ELSE PyNone

Returned(v) == [raised |-> FALSE, value |-> v]
Raised(exc) == [raised |-> TRUE, value |-> exc]

\* Mutation: the property reads another key of the mapping.
native_value_title(self) ==
  LET d == data[self.coordinator]
  IN IF d.kind = "NoneType" THEN Raised("AttributeError")
     ELSE Returned(dict_get(d.items, "title"))

\* Mutation: the property subscripts the mapping instead of calling get.
native_value_subscript(self) ==
  LET d == data[self.coordinator]
  IN IF d.kind = "NoneType" THEN Raised("TypeError")
     ELSE IF BODY \in DOMAIN d.items THEN Returned(d.items[BODY])
     ELSE Raised("KeyError")

\* Mutation: the property answers from a copy taken before the last refresh.
native_value_stale(self) ==
  LET d == data[self.coordinator]
  IN IF d.kind = "NoneType" THEN Raised("AttributeError")
     ELSE IF last.op = "refresh" /\ last.coordinator = self.coordinator
               /\ ~last.raised
          THEN Returned(last.value)
     ELSE Returned(dict_get(d.items, BODY))

\* IntegrationBlueprintSensor.native_value:
\*     return self.coordinator.data.get("body")
\* None has no attribute get: the attribute lookup raises AttributeError.
native_value(self) ==
  LET d == data[self.coordinator]
  IN IF d.kind = "NoneType" THEN Raised("AttributeError")
     ELSE Returned(dict_get(d.items, BODY))

\* Mutation: the generator yields one sensor too many.
NewSensors_extra(e, n) ==
  [i \in 1..(Len(ENTITY_DESCRIPTIONS) + 1) |->
     IntegrationBlueprintSensor(runtime_data[e].coordinator,
                                ENTITY_DESCRIPTIONS[1],
                                <<e, n, i>>)]

\* Mutation: every sensor is bound to the coordinator of the first entry.
NewSensors_firstEntry(e, n) ==
  [i \in 1..Len(ENTITY_DESCRIPTIONS) |->
     IntegrationBlueprintSensor(runtime_data[1].coordinator,
                                ENTITY_DESCRIPTIONS[i],
                                <<e, n, i>>)]

\* The generator expression of async_setup_entry, evaluated for the n-th
\* setup of entry e: one sensor per record of ENTITY_DESCRIPTIONS, in order.
NewSensors(e, n) ==
  [i \in 1..Len(ENTITY_DESCRIPTIONS) |->
     IntegrationBlueprintSensor(runtime_data[e].coordinator,
                                ENTITY_DESCRIPTIONS[i],
                                <<e, n, i>>)]

NoOp == [op |-> "init", entry |-> 0, coordinator |-> 0, entities |-> <<>>,
         raised |-> FALSE, value |-> PyNone, afterReplace |-> FALSE]

Init ==
  /\ data = [c \in Coordinators |-> NoData]
  /\ setupCalls = [e \in Entries |-> 0]
  /\ addCalls = [e \in Entries |-> 0]
  /\ instances = {}
  /\ registered = [e \in Entries |-> {}]
  /\ last = NoOp

\* Mutation: the function suspends before it calls the callback.
AsyncSetupEntry_suspended(e) ==
  /\ setupCalls[e] < MaxSetups
  /\ setupCalls' = [setupCalls EXCEPT ![e] = @ + 1]
  /\ last' = [NoOp EXCEPT !.op = "setup", !.entry = e,
                          !.coordinator = runtime_data[e].coordinator]
  /\ UNCHANGED <<data, addCalls, instances, registered>>

\* Mutation: the sensors are constructed but an empty iterable is handed on.
AsyncSetupEntry_unregistered(e) ==
  /\ setupCalls[e] < MaxSetups
  /\ LET new == NewSensors(e, setupCalls[e] + 1)
     IN /\ setupCalls' = [setupCalls EXCEPT ![e] = @ + 1]
        /\ addCalls' = [addCalls EXCEPT ![e] = @ + 1]
        /\ instances' = instances \cup Range(new)
        /\ last' = [NoOp EXCEPT !.op = "setup", !.entry = e,
                                !.coordinator = runtime_data[e].coordinator]
  /\ UNCHANGED <<data, registered>>

\* async_setup_entry(hass, entry, async_add_entities): one call of the
\* callback with the generator; the callback consumes it and registers
\* every sensor it yields.  There is no await in the body.
AsyncSetupEntry(e) ==
  /\ setupCalls[e] < MaxSetups
  /\ LET new == NewSensors(e, setupCalls[e] + 1)
     IN /\ setupCalls' = [setupCalls EXCEPT ![e] = @ + 1]
        /\ addCalls' = [addCalls EXCEPT ![e] = @ + 1]
        /\ instances' = instances \cup Range(new)
        /\ registered' = [registered EXCEPT ![e] = @ \cup Range(new)]
        /\ last' = [NoOp EXCEPT !.op = "setup", !.entry = e,
                                !.coordinator = runtime_data[e].coordinator,
                                !.entities = new]
  /\ UNCHANGED data

\* Mutation: the read takes the key out of the mapping (dict.pop).
ReadNativeValue_pop(s) ==
  /\ s \in instances
  /\ LET r == native_value(s)
         d == data[s.coordinator]
     IN /\ last' = [NoOp EXCEPT !.op = "read",
                                !.coordinator = s.coordinator,
                                !.entities = <<s>>,
                                !.raised = r.raised,
                                !.value = r.value]
        /\ data' = IF d.kind = "dict"
                   THEN [data EXCEPT ![s.coordinator] =
                           Dict([k \in DOMAIN d.items \ {BODY} |-> d.items[k]])]
                   ELSE data
  /\ UNCHANGED <<setupCalls, addCalls, instances, registered>>

\* The host reads the property native_value of a sensor object.
ReadNativeValue(s) ==
  /\ s \in instances
  /\ LET r == native_value(s)
     IN last' = [NoOp EXCEPT !.op = "read",
                             !.coordinator = s.coordinator,
                             !.entities = <<s>>,
                             !.raised = r.raised,
                             !.value = r.value,
                             !.afterReplace =
                                /\ last.op = "refresh"
                                /\ last.coordinator = s.coordinator
                                /\ ~last.raised
                                /\ last.value # r.value]
  /\ UNCHANGED <<data, setupCalls, addCalls, instances, registered>>

\* A successful refresh of coordinator c replaces its data by the mapping m.
\* last keeps what "body" was before the refresh.
Refresh(c, m) ==
  /\ data' = [data EXCEPT ![c] = Dict(m)]
  /\ last' = [NoOp EXCEPT !.op = "refresh", !.coordinator = c,
                          !.raised = (data[c].kind = "NoneType"),
                          !.value = dict_get(data[c].items, BODY)]
  /\ UNCHANGED <<setupCalls, addCalls, instances, registered>>

Setup == \E e \in Entries : AsyncSetupEntry(e)
Read == \E s \in instances : ReadNativeValue(s)
Refreshes == \E c \in Coordinators : \E m \in Mappings : Refresh(c, m)

Next == Setup \/ Read \/ Refreshes

Spec == Init /\ [][Next]_vars

TypeOK ==
  /\ \A c \in Coordinators :
       \/ data[c] = NoData
       \/ data[c].kind = "dict" /\ data[c].items \in Mappings
  /\ setupCalls \in [Entries -> 0..MaxSetups]
  /\ addCalls \in [Entries -> 0..MaxSetups]
  /\ last.op \in {"init", "setup", "read", "refresh"}

\* ------------------------------------------------------------------ claims
\* The coordinator data the last read looked at (a read leaves it as it was).
ReadData == data[last.coordinator]
IsRead == last.op = "read"
HasBody(d) == d.kind = "dict" /\ BODY \in DOMAIN d.items
LacksBody(d) == d.kind = "dict" /\ BODY \notin DOMAIN d.items

\* C1: when the data mapping holds the key "body" with value V, native_value
\* returns exactly V, whatever V is (None included), and does not raise.
C1_BodyReturned ==
  (IsRead /\ HasBody(ReadData))
    => (~last.raised /\ last.value = ReadData.items[BODY])

C1_Witness ==
  IsRead /\ HasBody(ReadData) /\ last.value = "'quote'"

\* C2: when the data mapping lacks the key "body" (the empty mapping, or a
\* mapping with other keys only), native_value returns None and raises nothing.
C2_MissingBodyIsNone ==
  (IsRead /\ LacksBody(ReadData))
    => (~last.raised /\ last.value = PyNone)

C2_Witness ==
  IsRead /\ LacksBody(ReadData) /\ "title" \in DOMAIN ReadData.items

\* C3: one call of async_setup_entry calls async_add_entities exactly once
\* and hands it exactly one sensor per record of ENTITY_DESCRIPTIONS (one
\* sensor: the tuple has one record), each built with the coordinator of
\* entry.runtime_data and with its own entity description.
C3_OneSensorPerDescription ==
  /\ \A e \in Entries : addCalls[e] = setupCalls[e]
  /\ \A e \in Entries :
        Cardinality(registered[e]) = setupCalls[e] * Len(ENTITY_DESCRIPTIONS)
  /\ last.op = "setup" =>
        /\ Len(last.entities) = Len(ENTITY_DESCRIPTIONS)
        /\ Len(last.entities) = 1
        /\ \A i \in 1..Len(last.entities) :
              /\ last.entities[i].entity_description = ENTITY_DESCRIPTIONS[i]
              /\ last.entities[i].coordinator
                    = runtime_data[last.entry].coordinator
              /\ last.entities[i] \in registered[last.entry]

C3_Witness ==
  last.op = "setup" /\ Len(last.entities) = 1 /\ addCalls[last.entry] = 1

\* C4: after any sequence of refreshes, native_value of every sensor is the
\* "body" entry of the mapping its coordinator holds now; a read that follows
\* a refresh never reports the value of the mapping that was replaced.
C4_ReadsCurrentMapping ==
  /\ \A s \in instances :
        data[s.coordinator].kind = "dict" =>
          native_value(s)
            = Returned(dict_get(data[s.coordinator].items, BODY))
  /\ (IsRead /\ ReadData.kind = "dict") =>
        last.value = dict_get(ReadData.items, BODY)

\* a read right after a refresh that changed the "body" entry of a mapping
C4_Witness ==
  IsRead /\ last.afterReplace /\ ~last.raised

\* C5: async_setup_entry runs as one step: in the step in which a setup
\* starts, the callback is called and the sensors are registered, and neither
\* a refresh nor a read happens in between; the setup is over in that step.
C5_SetupIsOneStep ==
  [][\A e \in Entries :
       setupCalls'[e] # setupCalls[e] =>
         /\ setupCalls'[e] = setupCalls[e] + 1
         /\ addCalls'[e] = addCalls[e] + 1
         /\ registered'[e] = registered[e] \cup Range(NewSensors(e, setupCalls'[e]))
         /\ registered'[e] # registered[e]
         /\ data' = data
         /\ last'.op = "setup" /\ last'.entry = e]_vars

C5_Witness ==
  last.op = "setup" /\ setupCalls[last.entry] = MaxSetups
    /\ addCalls[last.entry] = MaxSetups

\* C6: native_value is only read of sensors that a call of async_setup_entry
\* has registered through async_add_entities before.
C6_ReadOnlyRegistered ==
  /\ instances \subseteq UNION {registered[e] : e \in Entries}
  /\ IsRead =>
        \E e \in Entries :
          /\ last.entities[1] \in registered[e]
          /\ setupCalls[e] >= 1
          /\ addCalls[e] >= 1

C6_Witness ==
  IsRead /\ \E e \in Entries : last.entities[1] \in registered[e]

\* C7: a read of native_value changes nothing: the data mappings, the
\* registered entities and the constructed sensors are as before, "body"
\* present or not, and a read that directly follows a read of the same
\* coordinator returns what that read returned.
C7_ReadChangesNothing ==
  [][last'.op = "read" =>
       /\ data' = data
       /\ registered' = registered
       /\ instances' = instances
       /\ setupCalls' = setupCalls /\ addCalls' = addCalls
       /\ (last.op = "read" /\ last.coordinator = last'.coordinator) =>
            (last'.value = last.value /\ last'.raised = last.raised)]_vars

C7_Witness ==
  IsRead /\ HasBody(ReadData) /\ last.value = PyNone

\* C8 as claimed: native_value never raises, also when the coordinator holds
\* no data mapping (data is None).
C8_NeverRaises ==
  IsRead => ~last.raised

\* C8 amended: native_value returns without raising exactly when the
\* coordinator holds a data mapping (with or without "body"); when data is
\* None the read raises AttributeError.
C8_RaisesOnlyWithoutMapping ==
  IsRead =>
    /\ ReadData.kind = "dict" => ~last.raised
    /\ ReadData.kind = "NoneType" =>
          (last.raised /\ last.value = "AttributeError")

C8_Witness ==
  IsRead /\ ReadData = Dict(<<>>) /\ ~last.raised

\* C9: every sensor registered for an entry reads from the coordinator of
\* that entry's runtime_data: none from a coordinator that setup made itself,
\* none from the coordinator of another entry, whatever the order of setups.
C9_OwnCoordinator ==
  \A e \in Entries : \A s \in registered[e] :
    /\ s.coordinator = runtime_data[e].coordinator
    /\ s.coordinator \in Coordinators
    /\ \A f \in Entries \ {e} : s.coordinator # runtime_data[f].coordinator

\* both entries are set up, the first one last
C9_Witness ==
  /\ last.op = "setup" /\ last.entry = 1
  /\ \A e \in Entries : registered[e] # {}
====
